---- MODULE Spec2Model ----
(***************************************************************************)
(* Model of the sourcify-go request-dispatch pipeline: endpoint descriptor *)
(* (Method), parameter rendering, Client.CallMethod with its retry loop    *)
(* and optional token-bucket rate limiter, and the per-operation response  *)
(* decoding, including the tolerant array-vs-envelope decode.              *)
(*                                                                         *)
(* Strings are sequences of atoms (an atom is an indivisible run of        *)
(* characters), so prefix tests, slicing and substring replacement are     *)
(* computed as the Go code computes them.                                  *)
(***************************************************************************)
EXTENDS Integers, Sequences, FiniteSets, TLC

\* ------------------------------------------------------------------------
\* Bounds of the model
\* ------------------------------------------------------------------------
MaxRetriesBound == 2
MaxTokens == 1
MaxParams == 2

\* ------------------------------------------------------------------------
\* Strings and formatting helpers (Go strings / fmt)
\* ------------------------------------------------------------------------
RECURSIVE ReplaceAll(_, _, _)
ReplaceAll(s, old, new) ==
    IF Len(old) = 0
    THEN IF Len(s) = 0 THEN new
         ELSE new \o <<s[1]>> \o ReplaceAll(Tail(s), old, new)
    ELSE IF Len(s) < Len(old) THEN s
    ELSE IF SubSeq(s, 1, Len(old)) = old
         THEN new \o ReplaceAll(SubSeq(s, Len(old) + 1, Len(s)), old, new)
         ELSE <<s[1]>> \o ReplaceAll(Tail(s), old, new)

HasPrefix(s, p) == Len(s) >= Len(p) /\ SubSeq(s, 1, Len(p)) = p

Digit(d) == <<"0", "1", "2", "3", "4", "5", "6", "7", "8", "9">>[d + 1]

RECURSIVE NatToStr(_)
NatToStr(n) == IF n < 10 THEN <<Digit(n)>> ELSE NatToStr(n \div 10) \o <<Digit(n % 10)>>

\* fmt.Sprintf("%d", n)
IntToStr(n) == IF n < 0 THEN <<"-">> \o NatToStr(0 - n) ELSE NatToStr(n)

RECURSIVE Join(_, _)
Join(parts, sep) ==
    IF Len(parts) = 0 THEN <<>>
    ELSE IF Len(parts) = 1 THEN parts[1]
    ELSE parts[1] \o sep \o Join(Tail(parts), sep)

RECURSIVE MapIntToStr(_)
MapIntToStr(l) == IF Len(l) = 0 THEN <<>> ELSE <<IntToStr(l[1])>> \o MapIntToStr(Tail(l))

\* ------------------------------------------------------------------------
\* Parameter values: the dynamic type of MethodParam.Value
\* ------------------------------------------------------------------------
StrV(s)  == [k |-> "string",   s |-> s,    n |-> 0, ls |-> <<>>, li |-> <<>>, b |-> FALSE]
IntV(n)  == [k |-> "int",      s |-> <<>>, n |-> n, ls |-> <<>>, li |-> <<>>, b |-> FALSE]
StrsV(l) == [k |-> "[]string", s |-> <<>>, n |-> 0, ls |-> l,    li |-> <<>>, b |-> FALSE]
IntsV(l) == [k |-> "[]int",    s |-> <<>>, n |-> 0, ls |-> <<>>, li |-> l,    b |-> FALSE]
BoolV(b) == [k |-> "bool",     s |-> <<>>, n |-> 0, ls |-> <<>>, li |-> <<>>, b |-> b]

\* v == "" on an interface{} value: true only for the empty string
IsEmptyString(v) == v.k = "string" /\ v.s = <<>>

\* fmt.Sprintf("%v", v)
FormatV(v) ==
    CASE v.k = "string"   -> v.s
      [] v.k = "int"      -> IntToStr(v.n)
      [] v.k = "[]string" -> <<"[">> \o Join(v.ls, <<" ">>) \o <<"]">>
      [] v.k = "[]int"    -> <<"[">> \o Join(MapIntToStr(v.li), <<" ">>) \o <<"]">>
      [] v.k = "bool"     -> IF v.b THEN <<"true">> ELSE <<"false">>
      [] v.k = "nil"      -> <<"<nil>">>

MethodParam(key, value) == [Key |-> key, Value |-> value]

\* ------------------------------------------------------------------------
\* Errors
\* ------------------------------------------------------------------------
Err(kind, status, code, msg) == [kind |-> kind, status |-> status, code |-> code, msg |-> msg]
NoErr == Err("nil", 0, <<>>, <<>>)
IsErr(e) == e.kind # "nil"

\* the goroutine panics (nil pointer dereference) instead of returning
Panic == Err("panic", 0, <<>>, <<>>)

\* ErrInvalidParamType(reflect.TypeOf(v).String()) in a default branch:
\* reflect.TypeOf of the nil interface is nil, and String() on it panics
ErrInvalidParamType(v) ==
    IF v.k = "nil" THEN Panic ELSE Err("InvalidParamType", 0, <<>>, <<v.k>>)

\* ------------------------------------------------------------------------
\* Method (endpoint descriptor)
\* ------------------------------------------------------------------------
MethodParamTypeUri == 0
MethodParamTypeQueryString == 1
MethodParamTypeUriAndQueryString == 2

Method(name, uri, paramType, required, params) ==
    [Name |-> name, URI |-> uri, ParamType |-> paramType,
     RequiredParams |-> required, Params |-> params]

GetParams(e) == e.Params

\* variant: the new parameters are appended to the ones already there
SetParams_Merge(e, params) == [e EXCEPT !.Params = @ \o params]

SetParams(e, params) == [e EXCEPT !.Params = params]

\* variant: an entry with an empty string value does not count
HasKey_NonEmpty(params, key) ==
    \E i \in 1..Len(params) : params[i].Key = key /\ ~IsEmptyString(params[i].Value)

HasKey(params, key) == \E i \in 1..Len(params) : params[i].Key = key

\* Verify: the first required key, in declaration order, with no entry
RECURSIVE VerifyFrom(_, _)
VerifyFrom(e, i) ==
    IF i > Len(e.RequiredParams) THEN NoErr
    ELSE IF ~HasKey(e.Params, e.RequiredParams[i])
         THEN Err("MissingParameter", 0, <<>>, e.RequiredParams[i])
         ELSE VerifyFrom(e, i + 1)

\* variant: the required keys are scanned from the last one
Verify_LastFirst(e) ==
    LET r == e.RequiredParams
    IN VerifyFrom([e EXCEPT !.RequiredParams = [i \in 1..Len(r) |-> r[Len(r) + 1 - i]]], 1)

Verify(e) == VerifyFrom(e, 1)

\* ------------------------------------------------------------------------
\* Method.ParseUri
\* ------------------------------------------------------------------------
Rendered(uri, err) == [uri |-> uri, err |-> err]

\* variant: an int of value 0 contributes no fragment
QueryFragment_SkipZero(p) ==
    CASE p.Value.k = "[]string" ->
            IF Len(p.Value.ls) > 0
            THEN <<p.Key \o <<"=">> \o Join(p.Value.ls, <<",">>)>> ELSE <<>>
      [] p.Value.k = "[]int" ->
            IF Len(p.Value.li) > 0
            THEN <<p.Key \o <<"=">> \o Join(MapIntToStr(p.Value.li), <<",">>)>> ELSE <<>>
      [] p.Value.k = "string" ->
            IF p.Value.s # <<>> THEN <<p.Key \o <<"=">> \o p.Value.s>> ELSE <<>>
      [] p.Value.k = "int" ->
            IF p.Value.n # 0 THEN <<p.Key \o <<"=">> \o IntToStr(p.Value.n)>> ELSE <<>>
      [] OTHER -> <<>>

\* QueryString kind: the fragment a parameter contributes (<<>> = none)
QueryFragment(p) ==
    CASE p.Value.k = "[]string" ->
            IF Len(p.Value.ls) > 0
            THEN <<p.Key \o <<"=">> \o Join(p.Value.ls, <<",">>)>> ELSE <<>>
      [] p.Value.k = "[]int" ->
            IF Len(p.Value.li) > 0
            THEN <<p.Key \o <<"=">> \o Join(MapIntToStr(p.Value.li), <<",">>)>> ELSE <<>>
      [] p.Value.k = "string" ->
            IF p.Value.s # <<>> THEN <<p.Key \o <<"=">> \o p.Value.s>> ELSE <<>>
      [] p.Value.k = "int" -> <<p.Key \o <<"=">> \o IntToStr(p.Value.n)>>
      [] OTHER -> <<>>

RECURSIVE ParseQueryFrom(_, _, _)
ParseQueryFrom(e, i, frags) ==
    IF i > Len(e.Params)
    THEN Rendered(IF Len(frags) > 0 THEN <<"?">> \o Join(frags, <<"&">>) ELSE <<>>, NoErr)
    ELSE IF e.Params[i].Value.k \notin {"[]string", "[]int", "string", "int"}
         THEN Rendered(<<>>, ErrInvalidParamType(e.Params[i].Value))
         ELSE ParseQueryFrom(e, i + 1, frags \o QueryFragment(e.Params[i]))

RECURSIVE ParsePathFrom(_, _, _)
ParsePathFrom(e, i, acc) ==
    IF i > Len(e.Params) THEN Rendered(acc, NoErr)
    ELSE IF e.Params[i].Value.k \notin {"string", "int"}
         THEN Rendered(<<>>, ErrInvalidParamType(e.Params[i].Value))
         ELSE ParsePathFrom(e, i + 1,
                  ReplaceAll(acc, e.Params[i].Key, FormatV(e.Params[i].Value)))

\* index of the first entry of Params whose key is the placeholder with or
\* without its ':' prefix; 0 when there is none
FindPathParam(params, param) ==
    LET hits == {j \in 1..Len(params) :
                    params[j].Key = Tail(param) \/ params[j].Key = param}
    IN IF hits = {} THEN 0 ELSE CHOOSE j \in hits : \A h \in hits : j <= h

RECURSIVE SubstRequiredFrom(_, _, _)
SubstRequiredFrom(e, i, acc) ==
    IF i > Len(e.RequiredParams) THEN Rendered(acc, NoErr)
    ELSE LET param == e.RequiredParams[i] IN
         IF ~HasPrefix(param, <<":">>) THEN SubstRequiredFrom(e, i + 1, acc)
         ELSE LET j == FindPathParam(e.Params, param) IN
              IF j = 0 \/ IsEmptyString(e.Params[j].Value)
              THEN Rendered(<<>>, Err("MissingPathParameter", 0, <<>>, Tail(param)))
              ELSE SubstRequiredFrom(e, i + 1,
                       ReplaceAll(acc, param, FormatV(e.Params[j].Value)))

RECURSIVE PathAndQueryFragments(_, _)
PathAndQueryFragments(params, i) ==
    IF i > Len(params) THEN <<>>
    ELSE (IF ~HasPrefix(params[i].Key, <<":">>) /\ ~IsEmptyString(params[i].Value)
          THEN <<params[i].Key \o <<"=">> \o FormatV(params[i].Value)>>
          ELSE <<>>) \o PathAndQueryFragments(params, i + 1)

ParseUri(e) ==
    CASE e.ParamType = MethodParamTypeQueryString -> ParseQueryFrom(e, 1, <<>>)
      [] e.ParamType = MethodParamTypeUri -> ParsePathFrom(e, 1, e.URI)
      [] e.ParamType = MethodParamTypeUriAndQueryString ->
            LET path == SubstRequiredFrom(e, 1, e.URI)
                frags == PathAndQueryFragments(e.Params, 1)
            IN IF IsErr(path.err) THEN path
               ELSE Rendered(IF Len(frags) > 0
                             THEN path.uri \o <<"?">> \o Join(frags, <<"&">>)
                             ELSE path.uri, NoErr)
      [] OTHER -> Rendered(<<>>, Err("InvalidMethodParamType", 0, <<>>, <<>>))

\* ------------------------------------------------------------------------
\* Method.GetQueryParams: url.Values as a list of (key, values) entries in
\* insertion order; Add appends to the key's list, Set replaces it
\* ------------------------------------------------------------------------
ValuesAdd(vals, key, v) ==
    IF \E i \in 1..Len(vals) : vals[i].key = key
    THEN [i \in 1..Len(vals) |->
            IF vals[i].key = key THEN [vals[i] EXCEPT !.vals = @ \o <<v>>] ELSE vals[i]]
    ELSE vals \o <<[key |-> key, vals |-> <<v>>]>>

ValuesSet(vals, key, v) ==
    IF \E i \in 1..Len(vals) : vals[i].key = key
    THEN [i \in 1..Len(vals) |->
            IF vals[i].key = key THEN [vals[i] EXCEPT !.vals = <<v>>] ELSE vals[i]]
    ELSE vals \o <<[key |-> key, vals |-> <<v>>]>>

RECURSIVE QueryParamsFrom(_, _, _)
QueryParamsFrom(e, i, vals) ==
    IF i > Len(e.Params) THEN vals
    ELSE LET p == e.Params[i]
             next ==
               IF e.ParamType \in {MethodParamTypeQueryString, MethodParamTypeUriAndQueryString}
               THEN CASE p.Value.k = "[]string" -> ValuesAdd(vals, p.Key, Join(p.Value.ls, <<",">>))
                      [] p.Value.k = "[]int" ->
                            ValuesAdd(vals, p.Key, Join(MapIntToStr(p.Value.li), <<",">>))
                      [] p.Value.k = "string" -> ValuesSet(vals, p.Key, p.Value.s)
                      [] p.Value.k = "int" -> ValuesAdd(vals, p.Key, IntToStr(p.Value.n))
                      [] OTHER -> vals
               ELSE vals
         IN QueryParamsFrom(e, i + 1, next)

GetQueryParams(e) == QueryParamsFrom(e, 1, <<>>)

\* ------------------------------------------------------------------------
\* JSON documents carried by response bodies.
\* shape: the top-level JSON value ("invalid" = not JSON, "empty" = no bytes)
\* object documents carry the fields the decoders look at; array documents
\* carry their elements in items. An element is [k |-> JSON kind, id |-> _].
\* ------------------------------------------------------------------------
Item(k, id) == [k |-> k, id |-> id]

Doc(shape, statusK, statusS, filesK, items, code, msg, errorIdOK) ==
    [shape |-> shape, statusK |-> statusK, statusS |-> statusS, filesK |-> filesK,
     items |-> items, code |-> code, msg |-> msg, errorIdOK |-> errorIdOK]

ScalarDoc(shape) == Doc(shape, "absent", <<>>, "absent", <<>>, <<>>, <<>>, TRUE)
ArrayDoc(items) == Doc("array", "absent", <<>>, "absent", items, <<>>, <<>>, TRUE)
EnvelopeDoc(statusK, statusS, filesK, items) ==
    Doc("object", statusK, statusS, filesK, items, <<>>, <<>>, TRUE)
ErrorDoc(code, msg, errorIdOK) ==
    Doc("object", "absent", <<>>, "absent", <<>>, code, msg, errorIdOK)

\* *json.UnmarshalTypeError / *json.SyntaxError / nil
JsonErr(kind, value, field) == [kind |-> kind, value |-> value, field |-> field]
JsonOK == JsonErr("nil", "", "")

\* variant: the match stops at "cannot unmarshal array into Go"
ContainsArrayIntoGoValue_AnyArray(err) ==
    err.kind = "type" /\ err.value = "array"

\* strings.Contains(err.Error(), "cannot unmarshal array into Go value"):
\* an UnmarshalTypeError prints "into Go value of type" only when it has no
\* struct field context, "into Go struct field" otherwise
ContainsArrayIntoGoValue(err) ==
    err.kind = "type" /\ err.value = "array" /\ err.field = ""


\* JSON kind of an array element ("objectMore" is an object whose chainIds
\* field holds objects instead of strings)
JsonKind(k) == IF k = "objectMore" THEN "object" ELSE k

\* error of decoding one array element into Go element type elemT, where
\* field is the struct-field context of the array ("" at top level)
ElemErrOf(item, elemT, field) ==
    CASE elemT = "string" ->
            IF item.k = "string" THEN JsonOK ELSE JsonErr("type", JsonKind(item.k), field)
      [] elemT = "CheckContractAddress" ->
            IF item.k = "object" THEN JsonOK
            ELSE IF item.k = "objectMore"
                 THEN JsonErr("type", "object", "CheckContractAddress.chainIds")
                 ELSE JsonErr("type", item.k, field)
      [] elemT = "CheckContractAddressMore" ->
            IF item.k = "objectMore" THEN JsonOK
            ELSE IF item.k = "object"
                 THEN JsonErr("type", "string", "CheckContractAddressMore.chainIds")
                 ELSE JsonErr("type", item.k, field)
      [] OTHER ->
            IF JsonKind(item.k) = "object" THEN JsonOK ELSE JsonErr("type", item.k, field)

RECURSIVE ElemErr(_, _, _)
ElemErr(items, elemT, field) ==
    IF Len(items) = 0 THEN JsonOK
    ELSE IF ElemErrOf(items[1], elemT, field).kind # "nil"
         THEN ElemErrOf(items[1], elemT, field)
         ELSE ElemErr(Tail(items), elemT, field)

\* the slice after decoding: a mistyped element leaves a zero element
ElemValues(items, elemT) ==
    [i \in 1..Len(items) |->
        IF ElemErrOf(items[i], elemT, "").kind = "nil" THEN items[i].id ELSE "zero"]

\* decoded value of an operation: nil or a value with the fields the
\* operations fill
Value(isNil, status, items, path) ==
    [isNil |-> isNil, status |-> status, items |-> items, path |-> path]
NilValue == Value(TRUE, <<>>, <<>>, "none")

Decoded(err, val) == [err |-> err, val |-> val]

\* json.Unmarshal(body, &toReturn) with toReturn a non-nil *T, T a struct
\* {Status string `json:"status"`; <list> []E `json:"files"`}
UnmarshalEnvelope(doc, typeName, elemK) ==
    CASE doc.shape \in {"invalid", "empty"} ->
            Decoded(JsonErr("syntax", "", ""), Value(FALSE, <<>>, <<>>, "envelope"))
      [] doc.shape = "null" -> Decoded(JsonOK, NilValue)
      [] doc.shape \in {"string", "number", "array"} ->
            Decoded(JsonErr("type", doc.shape, ""), Value(FALSE, <<>>, <<>>, "envelope"))
      [] doc.shape = "object" ->
            LET statusErr == IF doc.statusK \in {"absent", "string"} THEN JsonOK
                             ELSE JsonErr("type", doc.statusK, typeName \o ".status")
                filesErr == CASE doc.filesK \in {"absent", "null"} -> JsonOK
                              [] doc.filesK = "array" ->
                                    ElemErr(doc.items, elemK, typeName \o ".files")
                              [] OTHER -> JsonErr("type", doc.filesK, typeName \o ".files")
                status == IF doc.statusK = "string" THEN doc.statusS ELSE <<>>
                items == IF doc.filesK = "array" THEN ElemValues(doc.items, elemK) ELSE <<>>
            \* the decoder saves the first error and keeps going
            IN Decoded(IF statusErr.kind # "nil" THEN statusErr ELSE filesErr,
                       Value(FALSE, status, items, "envelope"))

\* json.Unmarshal(body, &list) with list a nil []E
UnmarshalList(doc, elemK) ==
    CASE doc.shape \in {"invalid", "empty"} -> Decoded(JsonErr("syntax", "", ""), <<>>)
      [] doc.shape = "null" -> Decoded(JsonOK, <<>>)
      [] doc.shape = "array" ->
            Decoded(ElemErr(doc.items, elemK, ""), ElemValues(doc.items, elemK))
      [] OTHER -> Decoded(JsonErr("type", doc.shape, ""), <<>>)

\* the decode tail shared by GetContractFiles and GetContractSourceCode
DecodeErr(jsonErr) == Err("Decode", 0, <<jsonErr.kind, jsonErr.value, jsonErr.field>>, <<>>)

\* variant: the second decode reads the already drained stream again
TolerantDecode_Reread(doc, typeName, elemK) ==
    LET first == UnmarshalEnvelope(doc, typeName, elemK) IN
    IF first.err.kind # "nil"
    THEN IF ContainsArrayIntoGoValue(first.err)
         THEN LET second == UnmarshalList(ScalarDoc("empty"), elemK) IN
              IF second.err.kind # "nil"
              THEN [res |-> NilValue, err |-> DecodeErr(second.err)]
              ELSE [res |-> Value(FALSE, <<"unknown">>, second.val, "fallback"),
                    err |-> NoErr]
         ELSE [res |-> NilValue, err |-> DecodeErr(first.err)]
    ELSE [res |-> first.val, err |-> NoErr]

TolerantDecode(doc, typeName, elemK) ==
    LET first == UnmarshalEnvelope(doc, typeName, elemK) IN
    IF first.err.kind # "nil"
    THEN IF ContainsArrayIntoGoValue(first.err)
         THEN LET second == UnmarshalList(doc, elemK) IN
              IF second.err.kind # "nil"
              THEN [res |-> NilValue, err |-> DecodeErr(second.err)]
              ELSE [res |-> Value(FALSE, <<"unknown">>, second.val, "fallback"),
                    err |-> NoErr]
         ELSE [res |-> NilValue, err |-> DecodeErr(first.err)]
    ELSE [res |-> first.val, err |-> NoErr]

\* ToErrorResponse: the structured error of a non-200 body, or nil
ToErrorResponse(doc) ==
    IF doc.shape = "object" /\ doc.errorIdOK /\ doc.msg # <<>>
    THEN Err("ServerError", 0, doc.code, doc.msg)
    ELSE NoErr

\* json.NewDecoder(r).Decode(&v) with v a nil []E (GetChains)
DecodeSlice(doc, elemT) ==
    LET d == UnmarshalList(doc, elemT) IN
    IF d.err.kind # "nil" THEN [res |-> NilValue, err |-> DecodeErr(d.err)]
    ELSE [res |-> Value(doc.shape = "null", <<>>, d.val, "plain"), err |-> NoErr]

\* Decode(&v) with v a struct value; the operation returns &v
DecodeStruct(doc) ==
    CASE doc.shape \in {"invalid", "empty"} ->
            [res |-> NilValue, err |-> DecodeErr(JsonErr("syntax", "", ""))]
      [] doc.shape \in {"object", "null"} ->
            [res |-> Value(FALSE, <<>>, <<>>, "plain"), err |-> NoErr]
      [] OTHER -> [res |-> NilValue, err |-> DecodeErr(JsonErr("type", doc.shape, ""))]

\* Decode(&v) with v a nil *T; the operation returns v
DecodePointer(doc) ==
    CASE doc.shape \in {"invalid", "empty"} ->
            [res |-> NilValue, err |-> DecodeErr(JsonErr("syntax", "", ""))]
      [] doc.shape = "null" -> [res |-> NilValue, err |-> NoErr]
      [] doc.shape = "object" -> [res |-> Value(FALSE, <<>>, <<>>, "plain"), err |-> NoErr]
      [] OTHER -> [res |-> NilValue, err |-> DecodeErr(JsonErr("type", doc.shape, ""))]

\* the decode tail of CheckContractByAddresses

CheckDecode(doc) ==
    LET first == UnmarshalList(doc, "CheckContractAddress") IN
    IF first.err.kind # "nil"
    THEN IF first.err = JsonErr("type", "object", "CheckContractAddress.chainIds")
         THEN LET second == UnmarshalList(doc, "CheckContractAddressMore") IN
              IF second.err.kind # "nil"
              THEN [res |-> NilValue, err |-> DecodeErr(second.err)]
              ELSE [res |-> Value(FALSE, <<>>, first.val \o [i \in 1..Len(doc.items) |-> doc.items[i].id], "fallback"),
                    err |-> NoErr]
         ELSE [res |-> NilValue, err |-> DecodeErr(first.err)]
    ELSE [res |-> Value(doc.shape = "null", <<>>, first.val, "plain"), err |-> NoErr]

\* ------------------------------------------------------------------------
\* Package-level descriptors
\* ------------------------------------------------------------------------
KChain == <<":", "chain">>
KAddress == <<":", "address">>
KFilePath == <<":", "filePath">>

MethodGetChains == Method("GetChains", <<"/", "chains">>, MethodParamTypeUri, <<>>, <<>>)

MethodGetFileTreeFullOrPartialMatch ==
    Method("GetFileTreeFullOrPartialMatch",
           <<"/", "files", "/", "tree", "/", "any", "/">> \o KChain \o <<"/">> \o KAddress,
           MethodParamTypeUri, <<KChain, KAddress>>,
           <<MethodParam(KChain, StrV(<<>>)), MethodParam(KAddress, StrV(<<>>))>>)

MethodGetFileTreeFullMatch ==
    Method("GetFileTreeFullMatch",
           <<"/", "files", "/", "tree", "/">> \o KChain \o <<"/">> \o KAddress,
           MethodParamTypeUri, <<KChain, KAddress>>,
           <<MethodParam(KChain, StrV(<<>>)), MethodParam(KAddress, StrV(<<>>))>>)

MethodSourceFilesFullOrPartialMatch ==
    Method("SourceFilesFullOrPartialMatch",
           <<"/", "files", "/", "any", "/">> \o KChain \o <<"/">> \o KAddress,
           MethodParamTypeUri, <<KChain, KAddress>>,
           <<MethodParam(KChain, StrV(<<>>)), MethodParam(KAddress, StrV(<<>>))>>)

MethodSourceFilesFullMatch ==
    Method("SourceFilesFullMatch",
           <<"/", "files", "/">> \o KChain \o <<"/">> \o KAddress,
           MethodParamTypeUri, <<KChain, KAddress>>,
           <<MethodParam(KChain, StrV(<<>>)), MethodParam(KAddress, StrV(<<>>))>>)

MethodGetFileFromRepositoryFullMatch ==
    Method("GetFileFromRepositoryFullMatch",
           <<"/", "repository", "/", "contracts", "/", "full_match", "/">> \o KChain \o <<"/">> \o KAddress
               \o <<"/">> \o KFilePath,
           MethodParamTypeUri, <<KChain, KAddress, KFilePath>>,
           <<MethodParam(KChain, StrV(<<>>)), MethodParam(KAddress, StrV(<<>>)),
             MethodParam(KFilePath, StrV(<<>>))>>)

MethodGetFileFromRepositoryPartialMatch ==
    Method("GetFileFromRepositoryPartialMatch",
           <<"/", "repository", "/", "contracts", "/", "partial_match", "/">> \o KChain \o <<"/">> \o KAddress
               \o <<"/">> \o KFilePath,
           MethodParamTypeUri, <<KChain, KAddress, KFilePath>>,
           <<MethodParam(KChain, StrV(<<>>)), MethodParam(KAddress, StrV(<<>>)),
             MethodParam(KFilePath, StrV(<<>>))>>)

MethodGetContractAddressesFullOrPartialMatch ==
    Method("GetContractAddressesFullOrPartialMatch",
           <<"/", "files", "/", "contracts", "/">> \o KChain, MethodParamTypeUri, <<KChain>>, <<>>)

MethodCheckByAddresses ==
    Method("CheckByAddresses", <<"/", "check-by-addresses">>, MethodParamTypeQueryString,
           <<<<"addresses">>, <<"chainIds">>>>,
           <<MethodParam(<<"addresses">>, StrsV(<<>>)),
             MethodParam(<<"chainIds">>, IntsV(<<>>))>>)

MethodCheckAllByAddresses ==
    Method("CheckAllByAddresses", <<"/", "check-all-by-addresses">>, MethodParamTypeQueryString,
           <<<<"addresses">>, <<"chainIds">>>>,
           <<MethodParam(<<"addresses">>, StrsV(<<>>)),
             MethodParam(<<"chainIds">>, IntsV(<<>>))>>)

MethodGetContractByChainIdAndAddress ==
    Method("GetContractByChainIdAndAddress",
           <<"/", "v2", "/", "contract", "/">> \o KChain \o <<"/">> \o KAddress,
           MethodParamTypeUriAndQueryString, <<KChain, KAddress>>,
           <<MethodParam(<<"fields">>, StrV(<<>>)), MethodParam(<<"omit">>, StrV(<<>>))>>)

MethodHealth == Method("Health", <<"/", "health">>, MethodParamTypeUri, <<>>, <<>>)

MethodGetContractByChainId ==
    Method("GetContractByChainId", <<"/", "v2", "/", "contracts", "/">> \o KChain,
           MethodParamTypeUriAndQueryString, <<KChain>>,
           <<MethodParam(<<"fields">>, StrV(<<>>))>>)

\* ------------------------------------------------------------------------
\* Operation functions: the part before CallMethod (descriptor selection,
\* SetParams, Verify) and the part after it (status check and decode)
\* ------------------------------------------------------------------------
StructuredErrorOps ==
    {"GetChains", "GetContractMetadata", "GetContractMetadataAsBytes",
     "GetContractsByChainId", "GetContractByChainIdAndAddress"}
TolerantOps == {"GetContractFiles", "GetContractSourceCode"}
PublicOps == StructuredErrorOps \cup TolerantOps
                 \cup {"GetAvailableContractAddresses", "CheckContractByAddresses"}

Prepared(err, method) == [err |-> err, method |-> method]
InvalidMatchType == Err("InvalidMatchType", 0, <<>>, <<>>)
NotImplemented == Err("NotImplemented", 0, <<>>, <<>>)

Verified(m) == Prepared(Verify(m), m)

\* variant: Partial selects the full-match descriptor
PrepareFiles_PartialAsFull(in, fullMatch, anyMatch) ==
    IF in.matchType \notin {"full", "partial", "any"}
    THEN Prepared(InvalidMatchType, in.method)
    ELSE Verified(SetParams(IF in.matchType \in {"full", "partial"} THEN fullMatch
                            ELSE anyMatch,
             <<MethodParam(KChain, IntV(in.chainId)),
               MethodParam(KAddress, StrV(in.address))>>))

\* the switch on matchType of GetContractFiles and GetContractSourceCode,
\* SetParams and Verify
PrepareFiles(in, fullMatch, anyMatch) ==
    IF in.matchType \notin {"full", "partial", "any"}
    THEN Prepared(InvalidMatchType, in.method)
    ELSE Verified(SetParams(IF in.matchType = "full" THEN fullMatch ELSE anyMatch,
             <<MethodParam(KChain, IntV(in.chainId)),
               MethodParam(KAddress, StrV(in.address))>>))

PrepareMetadata(in) ==
    CASE in.matchType = "any" -> Prepared(NotImplemented, in.method)
      [] in.matchType \notin {"full", "partial"} -> Prepared(InvalidMatchType, in.method)
      [] OTHER ->
            Verified(SetParams(IF in.matchType = "full"
                               THEN MethodGetFileFromRepositoryFullMatch
                               ELSE MethodGetFileFromRepositoryPartialMatch,
                <<MethodParam(KChain, IntV(in.chainId)),
                  MethodParam(KAddress, StrV(in.address)),
                  MethodParam(KFilePath, StrV(<<"metadata.json">>))>>))

PrepareCheck(in) ==
    IF in.matchType \notin {"full", "partial", "any"}
    THEN Prepared(InvalidMatchType, in.method)
    ELSE Verified(SetParams(IF in.matchType = "full" THEN MethodCheckByAddresses
                            ELSE MethodCheckAllByAddresses,
             <<MethodParam(<<"addresses">>, StrsV(in.addresses)),
               MethodParam(<<"chainIds">>, IntsV(in.chainIds))>>))

PrepareContracts(in) ==
    Verified(SetParams(MethodGetContractByChainId,
        <<MethodParam(KChain, IntV(in.chainId)),
          MethodParam(<<"sort">>, StrV(in.sort)),
          MethodParam(<<"afterMatchId">>, StrV(in.afterMatchId)),
          MethodParam(<<"limit">>, IntV(in.limit))>>))

PrepareContract(in) ==
    LET fields == IF Len(in.omit) = 0 /\ Len(in.fields) = 0 THEN <<<<"all">>>> ELSE in.fields
    IN Verified(SetParams(MethodGetContractByChainIdAndAddress,
           <<MethodParam(KChain, IntV(in.chainId)),
             MethodParam(KAddress, StrV(in.address)),
             MethodParam(<<"fields">>, StrV(Join(fields, <<",">>))),
             MethodParam(<<"omit">>, StrV(Join(in.omit, <<",">>)))>>))

Prepare(in) ==
    CASE in.op = "GetChains" -> Prepared(NoErr, MethodGetChains)
      [] in.op = "GetHealth" -> Prepared(NoErr, MethodHealth)
      [] in.op = "GetContractFiles" ->
            PrepareFiles(in, MethodGetFileTreeFullMatch, MethodGetFileTreeFullOrPartialMatch)
      [] in.op = "GetContractSourceCode" ->
            PrepareFiles(in, MethodSourceFilesFullMatch, MethodSourceFilesFullOrPartialMatch)
      [] in.op \in {"GetContractMetadata", "GetContractMetadataAsBytes"} -> PrepareMetadata(in)
      [] in.op = "GetAvailableContractAddresses" ->
            Verified(SetParams(MethodGetContractAddressesFullOrPartialMatch,
                               <<MethodParam(KChain, IntV(in.chainId))>>))
      [] in.op = "CheckContractByAddresses" -> PrepareCheck(in)
      [] in.op = "GetContractsByChainId" -> PrepareContracts(in)
      [] in.op = "GetContractByChainIdAndAddress" -> PrepareContract(in)
      [] OTHER -> Prepared(NoErr, in.method)

\* what CallMethod returned: the body stream (hasBody), status code, error
Returned(hasBody, body, status, err) ==
    [hasBody |-> hasBody, body |-> body, status |-> status, err |-> err]

Outcome(res, err) == [res |-> res, err |-> err]
UnexpectedStatusCode(status) == Err("UnexpectedStatusCode", status, <<>>, <<>>)

StructuredOrGeneric(call) ==
    IF IsErr(ToErrorResponse(call.body))
    THEN Outcome(NilValue, ToErrorResponse(call.body))
    ELSE Outcome(NilValue, UnexpectedStatusCode(call.status))

\* GetHealth's (bool, error)
Healthy(b) == Value(FALSE, <<>>, <<>>, IF b THEN "true" ELSE "false")

FinishHealth(call) ==
    IF IsErr(call.err) THEN Outcome(Healthy(FALSE), call.err)
    ELSE IF call.status # 200 THEN Outcome(Healthy(FALSE), NoErr)
    ELSE Outcome(Healthy(TRUE), NoErr)

Finish(in, call) ==
    IF in.op = "GetHealth" THEN FinishHealth(call)
    ELSE IF IsErr(call.err) THEN Outcome(NilValue, call.err)
    ELSE CASE in.op = "GetChains" ->
                IF call.status # 200 THEN StructuredOrGeneric(call)
                ELSE DecodeSlice(call.body, "Chain")
           [] in.op = "GetContractMetadata" ->
                IF call.status # 200 THEN StructuredOrGeneric(call)
                ELSE DecodeStruct(call.body)
           [] in.op = "GetContractMetadataAsBytes" ->
                IF call.status # 200 THEN StructuredOrGeneric(call)
                ELSE Outcome(Value(FALSE, <<>>, <<>>, "bytes"), NoErr)
           [] in.op = "GetContractsByChainId" ->
                IF call.status # 200 THEN StructuredOrGeneric(call)
                ELSE DecodePointer(call.body)
           [] in.op = "GetContractByChainIdAndAddress" ->
                IF call.status # 200 THEN StructuredOrGeneric(call)
                ELSE DecodeStruct(call.body)
           [] in.op = "GetContractFiles" ->
                IF call.status # 200 THEN Outcome(NilValue, UnexpectedStatusCode(call.status))
                ELSE TolerantDecode(call.body, "FileTree", "string")
           [] in.op = "GetContractSourceCode" ->
                IF call.status # 200 THEN Outcome(NilValue, UnexpectedStatusCode(call.status))
                ELSE TolerantDecode(call.body, "SourceCodes", "SourceCode")
           [] in.op = "GetAvailableContractAddresses" ->
                IF call.status # 200 THEN Outcome(NilValue, UnexpectedStatusCode(call.status))
                ELSE DecodeStruct(call.body)
           [] in.op = "CheckContractByAddresses" ->
                IF call.status # 200 THEN Outcome(NilValue, UnexpectedStatusCode(call.status))
                ELSE CheckDecode(call.body)
           [] OTHER -> Outcome(Value(~call.hasBody, <<>>, <<>>, "stream"), NoErr)

\* ------------------------------------------------------------------------
\* Client.CallMethod up to the retry loop
\* ------------------------------------------------------------------------
BasePath == <<"/", "server">>

\* the segments of a path: the runs of atoms between slashes
RECURSIVE SplitPath(_, _, _)
SplitPath(s, cur, acc) ==
    IF Len(s) = 0 THEN acc \o <<cur>>
    ELSE IF s[1] = "/" THEN SplitPath(Tail(s), <<>>, acc \o <<cur>>)
    ELSE SplitPath(Tail(s), cur \o <<s[1]>>, acc)

\* path.Clean of a rooted path, segment by segment: empty and "." segments
\* are dropped, ".." drops the segment before it (none at the root)
RECURSIVE CleanFrom(_, _, _)
CleanFrom(segs, i, kept) ==
    IF i > Len(segs) THEN kept
    ELSE IF segs[i] \in {<<>>, <<".">>} THEN CleanFrom(segs, i + 1, kept)
    ELSE IF segs[i] = <<"..">>
         THEN CleanFrom(segs, i + 1,
                        IF Len(kept) = 0 THEN kept ELSE SubSeq(kept, 1, Len(kept) - 1))
    ELSE CleanFrom(segs, i + 1, kept \o <<segs[i]>>)

Clean(s) ==
    LET kept == CleanFrom(SplitPath(s, <<>>, <<>>), 1, <<>>)
    IN <<"/">> \o Join(kept, <<"/">>)

HasSuffix(s, x) == Len(s) >= Len(x) /\ SubSeq(s, Len(s) - Len(x) + 1, Len(s)) = x

\* variant: the rendered path replaces the base path
\* URL.String() of the joined path: a space is written escaped
PathEscape(s) == [i \in 1..Len(s) |-> IF s[i] = " " THEN "%20" ELSE s[i]]

JoinPath_Replace(base, elem) == PathEscape(Clean(elem))

\* url.JoinPath of the base URL's path and a rendered path: path.Join of the
\* two, cleaned, with the trailing slash of the last element kept
JoinPath(base, elem) ==
    LET p == Clean(base \o <<"/">> \o elem)
    IN PathEscape(IF HasSuffix(elem, <<"/">>) /\ ~HasSuffix(p, <<"/">>)
                  THEN p \o <<"/">> ELSE p)

\* url.QueryEscape on the atoms of the model: ',' ':' and the space are escaped
QueryEscape(s) ==
    [i \in 1..Len(s) |->
        CASE s[i] = "," -> "%2C"
          [] s[i] = ":" -> "%3A"
          [] s[i] = " " -> "+"
          [] OTHER -> s[i]]

\* the atoms query keys are made of, in byte order
AtomsInOrder ==
    <<":", "address", "addresses", "afterMatchId", "chain", "chainIds", "f", "fields",
      "filePath", "flag", "limit", "n", "omit", "q", "s", "sort", "tags", "x", "y">>

\* k1 < k2 as strings
RECURSIVE KeyLess(_, _)
KeyLess(k1, k2) ==
    IF Len(k2) = 0 THEN FALSE
    ELSE IF Len(k1) = 0 THEN TRUE
    ELSE IF k1[1] = k2[1] THEN KeyLess(Tail(k1), Tail(k2))
    ELSE LET Rank(a) == CHOOSE i \in 1..Len(AtomsInOrder) : AtomsInOrder[i] = a
         IN Rank(k1[1]) < Rank(k2[1])

\* the entries of a url.Values sorted by key
RECURSIVE SortedByKey(_)
SortedByKey(vals) ==
    IF Len(vals) = 0 THEN <<>>
    ELSE LET i == CHOOSE k \in 1..Len(vals) :
                    \A j \in 1..Len(vals) : j # k => KeyLess(vals[k].key, vals[j].key)
         IN <<vals[i]>> \o
            SortedByKey([j \in 1..(Len(vals) - 1) |-> IF j < i THEN vals[j] ELSE vals[j + 1]])

\* key=value for every value of every key
RECURSIVE EncodeEntries(_)
EncodeEntries(vals) ==
    IF Len(vals) = 0 THEN <<>>
    ELSE [i \in 1..Len(vals[1].vals) |->
             QueryEscape(vals[1].key) \o <<"=">> \o QueryEscape(vals[1].vals[i])]
         \o EncodeEntries(Tail(vals))

\* url.Values.Encode: "key=value" pairs sorted by key, escaped, joined by '&'
Encode(vals) == Join(EncodeEntries(SortedByKey(vals)), <<"&">>)

Request(path, query) == [path |-> path, query |-> query]
NoRequest == Request(<<>>, <<>>)

Dispatched(err, req) == [err |-> err, req |-> req]

callURIMethod(m) ==
    LET uri == ParseUri(m) IN
    IF uri.err = Panic THEN Dispatched(Panic, NoRequest)
    ELSE IF IsErr(uri.err)
    THEN Dispatched(Err("FailedToParseMethodParameters", 0, <<>>, <<uri.err.kind>>), NoRequest)
    ELSE Dispatched(NoErr, Request(JoinPath(BasePath, uri.uri), <<>>))

callQueryMethod(m) ==
    Dispatched(NoErr, Request(JoinPath(BasePath, m.URI), Encode(GetQueryParams(m))))

\* variant: every kind other than Uri is dispatched as a query method
CallMethod_QueryByDefault(m) ==
    IF m.ParamType = MethodParamTypeUri THEN callURIMethod(m)
    ELSE callQueryMethod(m)

CallMethod(m) ==
    IF m.ParamType = MethodParamTypeUri THEN callURIMethod(m)
    ELSE IF m.ParamType = MethodParamTypeQueryString THEN callQueryMethod(m)
    ELSE Dispatched(Err("InvalidMethodParamType", 0, <<>>, <<>>), NoRequest)

\* ------------------------------------------------------------------------
\* Inputs the model explores
\* ------------------------------------------------------------------------
Address == <<"0xA">>

Input(op, matchType, method) ==
    [op |-> op, matchType |-> matchType, chainId |-> 1, address |-> Address,
     fields |-> <<>>, omit |-> <<>>, addresses |-> <<Address>>, chainIds |-> <<1>>,
     sort |-> <<>>, afterMatchId |-> <<>>, limit |-> 0, method |-> method]

KX == <<":", "x">>
PathTemplate == <<"/", "a", "/">> \o KX

\* descriptors a caller hands to CallMethod directly
CallerMethods ==
    { Method("PathOK", PathTemplate, MethodParamTypeUri, <<KX>>,
             <<MethodParam(KX, StrV(<<"1">>))>>),
      Method("PathMissing", PathTemplate, MethodParamTypeUri, <<KX>>, <<>>),
      Method("PathList", PathTemplate, MethodParamTypeUri, <<KX>>,
             <<MethodParam(KX, StrsV(<<<<"1">>>>))>>),
      Method("QueryOK", <<"/", "q">>, MethodParamTypeQueryString, <<<<"tags">>>>,
             <<MethodParam(<<"tags">>, StrsV(<<<<"a">>, <<"b">>>>)),
               MethodParam(<<"n">>, IntV(3))>>),
      Method("QueryMissing", <<"/", "q">>, MethodParamTypeQueryString, <<<<"tags">>>>,
             <<MethodParam(<<"n">>, IntV(0))>>),
      Method("QueryBool", <<"/", "q">>, MethodParamTypeQueryString, <<>>,
             <<MethodParam(<<"flag">>, BoolV(TRUE))>>),
      Method("BothOK", PathTemplate, MethodParamTypeUriAndQueryString, <<KX>>,
             <<MethodParam(KX, IntV(1)), MethodParam(<<"f">>, StrV(<<"v">>))>>),
      Method("BothMissing", PathTemplate, MethodParamTypeUriAndQueryString, <<KX>>,
             <<MethodParam(<<"f">>, StrV(<<"v">>))>>),
      Method("KindThree", PathTemplate, 3, <<KX>>, <<MethodParam(KX, StrV(<<"1">>))>>),
      Method("KindNegative", <<"/", "q">>, 0 - 1, <<>>, <<>>) }

Inputs ==
    { Input("GetChains", "full", MethodGetChains),
      Input("GetHealth", "full", MethodGetChains),
      Input("GetAvailableContractAddresses", "full", MethodGetChains),
      Input("GetContractsByChainId", "full", MethodGetChains),
      Input("GetContractByChainIdAndAddress", "full", MethodGetChains),
      [Input("GetContractByChainIdAndAddress", "full", MethodGetChains)
          EXCEPT !.omit = <<<<"abi">>>>] }
    \cup { Input(op, mt, MethodGetChains) :
             op \in {"GetContractFiles", "GetContractSourceCode", "GetContractMetadata",
                     "GetContractMetadataAsBytes", "CheckContractByAddresses"},
             mt \in {"full", "partial", "any", "bogus"} }
    \cup { Input("CallMethod", "full", m) : m \in CallerMethods }

\* responses of the transport
Response(transportErr, status, body) ==
    [transportErr |-> transportErr, status |-> status, body |-> body]
NoResponse == Response(FALSE, 0, ScalarDoc("empty"))

FileA == Item("string", "a")
FileB == Item("string", "b")
CodeA == Item("object", "a")
CodeB == Item("object", "b")

Bodies ==
    { ScalarDoc("invalid"), ScalarDoc("null"), ScalarDoc("string"),
      ArrayDoc(<<>>), ArrayDoc(<<FileA, FileB>>), ArrayDoc(<<FileB, FileA>>),
      ArrayDoc(<<CodeA, CodeB>>),
      ArrayDoc(<<FileA, Item("number", "n")>>), ArrayDoc(<<Item("array", "x")>>),
      ArrayDoc(<<Item("objectMore", "m")>>),
      EnvelopeDoc("string", <<"success">>, "array", <<FileA, FileB>>),
      EnvelopeDoc("string", <<"success">>, "array", <<CodeA, CodeB>>),
      EnvelopeDoc("string", <<"success">>, "array", <<Item("array", "x")>>),
      EnvelopeDoc("array", <<>>, "absent", <<>>),
      EnvelopeDoc("absent", <<>>, "absent", <<>>),
      ErrorDoc(<<"X">>, <<"boom">>, TRUE), ErrorDoc(<<"X">>, <<>>, TRUE),
      ErrorDoc(<<"X">>, <<"boom">>, FALSE) }

Responses ==
    {Response(TRUE, 0, ScalarDoc("empty"))}
        \cup {Response(FALSE, st, b) : st \in {200, 404, 500}, b \in Bodies}

\* ------------------------------------------------------------------------
\* State
\* ------------------------------------------------------------------------
VARIABLES client, bucket, pc, in, method, req, attempt, sleeps, sent, acquired,
          last, call, out, bodies, pkg,
          tickerC, refill, fired, added, burst, callers,
          tmpl, desc, applied

\* the state of one caller running an operation
callVars == <<pc, in, method, req, attempt, sleeps, sent, acquired, last, call, out,
              bodies, pkg>>

\* the limiter's ticker and goroutine, and the callers sharing the client
rlVars == <<tickerC, refill, fired, added, burst, callers>>

\* a Method value and the last call made on it
mVars == <<tmpl, desc, applied>>

vars == <<client, bucket, callVars, rlVars, mVars>>

\* NewClient with WithRetryOptions and, optionally, WithRateLimit
NewClient(maxRetries, limited, max) ==
    [MaxRetries |-> maxRetries,
     RateLimiter |-> [attached |-> limited, Max |-> IF limited THEN max ELSE 0]]

NoCall == Returned(FALSE, ScalarDoc("empty"), 0, NoErr)
NoOutcome == Outcome(NilValue, NoErr)

\* the package-level descriptors, by name
PackageMethods ==
    LET all ==
          { MethodGetChains, MethodGetFileTreeFullOrPartialMatch, MethodGetFileTreeFullMatch,
            MethodSourceFilesFullOrPartialMatch, MethodSourceFilesFullMatch,
            MethodGetFileFromRepositoryFullMatch, MethodGetFileFromRepositoryPartialMatch,
            MethodGetContractAddressesFullOrPartialMatch, MethodCheckByAddresses,
            MethodCheckAllByAddresses, MethodGetContractByChainIdAndAddress,
            MethodGetContractByChainId, MethodHealth }
    IN [n \in {m.Name : m \in all} |-> CHOOSE m \in all : m.Name = n]

\* variant: the operation works on the package-level value itself
PackageAfter_Aliased(pkgs, m) ==
    IF m.Name \in DOMAIN pkgs THEN [pkgs EXCEPT ![m.Name] = m] ELSE pkgs

\* "method := MethodX" copies the struct and SetParams assigns the Params
\* field of the copy: the package-level values stay as they are
PackageAfter(pkgs, m) == pkgs

\* variant: the loop closes every body it obtained
BodyAfter_Closed(resp) == IF resp.transportErr THEN "none" ELSE "closed"

\* the body of one attempt's response: none on a transport error, else an
\* open stream the loop does not close
BodyAfter(resp) == IF resp.transportErr THEN "none" ELSE "open"

\* "defer response.Close()" of an operation function: the stream CallMethod
\* returned is closed; a direct caller of CallMethod keeps it
AfterDeferredClose(i, ret, streams) ==
    IF i.op # "CallMethod" /\ ~IsErr(ret.err) /\ Len(streams) > 0
    THEN [streams EXCEPT ![Len(streams)] = "closed"]
    ELSE streams

\* two callers sharing one Client
Callers == {"a", "b"}


\* the result of the last call made on the Method value
\* op: the last call; sets, arg: how many SetParams calls were made (2 for
\* two or more) and the argument of the last one; got, err, uri: what the
\* last GetParams, Verify or ParseUri call returned
Applied(op, sets, arg, got, err, uri) ==
    [op |-> op, sets |-> sets, arg |-> arg, got |-> got, err |-> err, uri |-> uri]
NoApplied == Applied("none", 0, <<>>, <<>>, NoErr, <<>>)

\* variant: the bucket starts one token short
Prefill_Short(max) == max - 1

\* NewRateLimiter's loop that fills the bucket to its capacity
Prefill(max) == max

\* no operation in progress
IdleCall ==
    /\ pc = "idle"
    /\ in = Input("GetChains", "full", MethodGetChains)
    /\ method = MethodGetChains
    /\ req = NoRequest
    /\ attempt = 0
    /\ sleeps = 0
    /\ sent = 0
    /\ acquired = 0
    /\ last = NoResponse
    /\ call = NoCall
    /\ out = NoOutcome
    /\ bodies = <<>>
    /\ pkg = PackageMethods

\* the limiter right after NewRateLimiter, before its ticker fired
IdleLimiter ==
    /\ tickerC = 0
    /\ refill = "recv"
    /\ fired = 0
    /\ added = 0
    /\ burst = 0
    /\ callers = [c \in Callers |-> [pc |-> "idle", attempt |-> 0, acquired |-> 0]]

\* no Method value under test
IdleMethod ==
    /\ tmpl = MethodGetChains
    /\ desc = MethodGetChains
    /\ applied = NoApplied

Init ==
    /\ client \in {NewClient(n, l, MaxTokens) : n \in 0..MaxRetriesBound, l \in BOOLEAN}
    /\ bucket = Prefill(client.RateLimiter.Max)
    /\ IdleCall
    /\ IdleLimiter
    /\ IdleMethod

\* an operation function (or a direct CallMethod) is called: everything up
\* to the first iteration of the retry loop
Invoke(i) ==
    /\ pc = "idle"
    /\ in' = i
    /\ LET p == Prepare(i)
           d == CallMethod(p.method)
       IN /\ method' = p.method
          /\ pkg' = PackageAfter(pkg, p.method)
          /\ IF IsErr(p.err)
             THEN /\ out' = Outcome(NilValue, p.err)
                  /\ pc' = "done"
                  /\ UNCHANGED <<req, call>>
             ELSE IF IsErr(d.err)
             THEN /\ call' = Returned(FALSE, ScalarDoc("empty"), 0, d.err)
                  /\ out' = Finish(i, Returned(FALSE, ScalarDoc("empty"), 0, d.err))
                  /\ pc' = "done"
                  /\ UNCHANGED req
             ELSE /\ req' = d.req
                  /\ pc' = "loop"
                  /\ UNCHANGED <<call, out>>
    /\ UNCHANGED <<client, bucket, attempt, sleeps, sent, acquired, last, bodies>>
    /\ UNCHANGED <<rlVars, mVars>>

\* top of the retry loop: RateLimiter.Wait() when a limiter is attached
Wait ==
    /\ pc = "loop"
    /\ IF client.RateLimiter.attached
       THEN /\ bucket > 0
            /\ bucket' = bucket - 1
            /\ acquired' = acquired + 1
       ELSE UNCHANGED <<bucket, acquired>>
    /\ pc' = "send"
    /\ UNCHANGED <<client, in, method, req, attempt, sleeps, sent, last, call, out,
                   bodies, pkg>>
    /\ UNCHANGED <<rlVars, mVars>>

\* variant: the retry test is attempt < MaxRetries
AfterAttempt_OffByOne(c, n, resp) ==
    IF resp.transportErr
    THEN IF n < c.MaxRetries THEN [retry |-> TRUE, ret |-> NoCall]
         ELSE [retry |-> FALSE,
               ret |-> Returned(FALSE, ScalarDoc("empty"), 0, Err("Transport", 0, <<>>, <<>>))]
    ELSE IF resp.status # 200
    THEN IF n < c.MaxRetries THEN [retry |-> TRUE, ret |-> NoCall]
         ELSE [retry |-> FALSE,
               ret |-> Returned(FALSE, ScalarDoc("empty"), resp.status,
                                Err("UnexpectedStatus", resp.status, <<>>, <<>>))]
    ELSE [retry |-> FALSE, ret |-> Returned(TRUE, resp.body, resp.status, NoErr)]

\* what the loop body does with the transport's answer: "retry" or a return
AfterAttempt(c, n, resp) ==
    IF resp.transportErr
    THEN IF n <= c.MaxRetries THEN [retry |-> TRUE, ret |-> NoCall]
         ELSE [retry |-> FALSE,
               ret |-> Returned(FALSE, ScalarDoc("empty"), 0, Err("Transport", 0, <<>>, <<>>))]
    ELSE IF resp.status # 200
    THEN IF n <= c.MaxRetries THEN [retry |-> TRUE, ret |-> NoCall]
         ELSE [retry |-> FALSE,
               ret |-> Returned(FALSE, ScalarDoc("empty"), resp.status,
                                Err("UnexpectedStatus", resp.status, <<>>, <<>>))]
    ELSE [retry |-> FALSE, ret |-> Returned(TRUE, resp.body, resp.status, NoErr)]

\* attempt++, HTTPClient.Do(req) and the branch on its result
Do(resp) ==
    /\ pc = "send"
    /\ attempt' = attempt + 1
    /\ sent' = sent + 1
    /\ last' = resp
    /\ bodies' = Append(bodies, BodyAfter(resp))
    /\ LET a == AfterAttempt(client, attempt + 1, resp) IN
       IF a.retry
       THEN /\ pc' = "sleep"
            /\ UNCHANGED call
       ELSE /\ pc' = "returned"
            /\ call' = a.ret
    /\ UNCHANGED <<client, bucket, in, method, req, sleeps, acquired, out, pkg>>
    /\ UNCHANGED <<rlVars, mVars>>

\* variant: the loop continues without sleeping
Sleep_NoDelay ==
    /\ pc = "sleep"
    /\ pc' = "loop"
    /\ UNCHANGED <<client, bucket, in, method, req, attempt, sleeps, sent, acquired,
                   last, call, out, bodies, pkg>>
    /\ UNCHANGED <<rlVars, mVars>>

\* time.Sleep(c.RetryOptions.Delay); continue
Sleep ==
    /\ pc = "sleep"
    /\ sleeps' = sleeps + 1
    /\ pc' = "loop"
    /\ UNCHANGED <<client, bucket, in, method, req, attempt, sent, acquired, last, call, out,
                   bodies, pkg>>
    /\ UNCHANGED <<rlVars, mVars>>

\* the operation function's code after CallMethod returned
Return ==
    /\ pc = "returned"
    /\ out' = Finish(in, call)
    /\ bodies' = AfterDeferredClose(in, call, bodies)
    /\ pc' = "done"
    /\ UNCHANGED <<client, bucket, in, method, req, attempt, sleeps, sent, acquired,
                   last, call, pkg>>
    /\ UNCHANGED <<rlVars, mVars>>

\* the caller is ready for its next call
NextCall ==
    /\ pc = "done"
    /\ pc' = "idle"
    /\ req' = NoRequest
    /\ attempt' = 0
    /\ sleeps' = 0
    /\ sent' = 0
    /\ acquired' = 0
    /\ last' = NoResponse
    /\ call' = NoCall
    /\ out' = NoOutcome
    /\ bodies' = <<>>
    /\ UNCHANGED <<client, bucket, in, method, pkg>>
    /\ UNCHANGED <<rlVars, mVars>>

\* the limiter's ticker goroutine: one token per period, blocked while full
Tick ==
    /\ client.RateLimiter.attached
    /\ bucket < client.RateLimiter.Max
    /\ bucket' = bucket + 1
    /\ UNCHANGED <<client, pc, in, method, req, attempt, sleeps, sent, acquired,
                   last, call, out, bodies, pkg>>
    /\ UNCHANGED <<rlVars, mVars>>

Next ==
    \/ \E i \in Inputs : Invoke(i)
    \/ Wait
    \/ \E r \in Responses : Do(r)
    \/ Sleep
    \/ Return
    \/ NextCall
    \/ Tick

Spec == Init /\ [][Next]_vars

\* ------------------------------------------------------------------------
\* The rate limiter shared by concurrent callers
\* ------------------------------------------------------------------------
\* a call makes at most MaxRetries + 1 attempts, so the callers make fewer
\* than TickCap Wait() calls together; the count of fired ticks stops there
TickCap == Cardinality(Callers) * (MaxRetriesBound + 2)

Min(a, b) == IF a < b THEN a ELSE b

\* what the transport answers in this specification
Answers ==
    { Response(TRUE, 0, ScalarDoc("empty")),
      Response(FALSE, 500, ScalarDoc("empty")),
      Response(FALSE, 200, ScalarDoc("empty")) }

RECURSIVE SumOver(_, _)
SumOver(f, S) ==
    IF S = {} THEN 0
    ELSE LET c == CHOOSE x \in S : TRUE IN f[c] + SumOver(f, S \ {c})

\* Wait() calls that returned, and requests handed to the transport
Waited == SumOver([c \in Callers |-> callers[c].acquired], Callers)
Requests == SumOver([c \in Callers |-> callers[c].attempt], Callers)

InitRL ==
    /\ client \in {NewClient(n, TRUE, k) : n \in 0..MaxRetriesBound, k \in 1..MaxTokens}
    /\ bucket = Prefill(client.RateLimiter.Max)
    /\ IdleCall
    /\ IdleLimiter
    /\ IdleMethod

\* time.Ticker: a period elapses; the tick is kept for the goroutine unless
\* the previous one is still unread, and then it is dropped
TickerFire ==
    /\ client.RateLimiter.attached
    /\ tickerC' = 1
    /\ fired' = Min(fired + 1, TickCap)
    /\ burst' = 0
    /\ UNCHANGED <<client, bucket, callVars, refill, added, callers, mVars>>

\* variant: a one-shot timer, only the first tick is received
RefillRecv_Once ==
    /\ refill = "recv"
    /\ tickerC = 1
    /\ added = 0
    /\ tickerC' = 0
    /\ refill' = "send"
    /\ UNCHANGED <<client, bucket, callVars, fired, added, burst, callers, mVars>>

\* the goroutine's "for range ticker.C" receives a tick
RefillRecv ==
    /\ refill = "recv"
    /\ tickerC = 1
    /\ tickerC' = 0
    /\ refill' = "send"
    /\ UNCHANGED <<client, bucket, callVars, fired, added, burst, callers, mVars>>

\* variant: the token is added without waiting for room
RefillSend_NoBlock ==
    /\ refill = "send"
    /\ bucket <= client.RateLimiter.Max
    /\ bucket' = bucket + 1
    /\ added' = added + 1
    /\ refill' = "recv"
    /\ UNCHANGED <<client, callVars, tickerC, fired, burst, callers, mVars>>

\* the goroutine's "bucket <- struct{}{}": blocked while the bucket is full
RefillSend ==
    /\ refill = "send"
    /\ bucket < client.RateLimiter.Max
    /\ bucket' = bucket + 1
    /\ added' = added + 1
    /\ refill' = "recv"
    /\ UNCHANGED <<client, callVars, tickerC, fired, burst, callers, mVars>>

\* a caller enters doRequestWithRetry
CallStart(c) ==
    /\ callers[c].pc = "idle"
    /\ callers' = [callers EXCEPT ![c].pc = "loop"]
    /\ UNCHANGED <<client, bucket, callVars, tickerC, refill, fired, added, burst, mVars>>

\* variant: only the first attempt takes a token
CallWait_FirstOnly(c) ==
    /\ callers[c].pc = "loop"
    /\ IF callers[c].attempt = 0
       THEN /\ bucket > 0
            /\ bucket' = bucket - 1
            /\ burst' = burst + 1
            /\ callers' = [callers EXCEPT ![c].pc = "send",
                                          ![c].acquired = @ + 1]
       ELSE /\ callers' = [callers EXCEPT ![c].pc = "send"]
            /\ UNCHANGED <<bucket, burst>>
    /\ UNCHANGED <<client, callVars, tickerC, refill, fired, added, mVars>>

\* top of the retry loop: c.RateLimiter.Wait(), blocked while the bucket is
\* empty
CallWait(c) ==
    /\ callers[c].pc = "loop"
    /\ bucket > 0
    /\ bucket' = bucket - 1
    /\ burst' = burst + 1
    /\ callers' = [callers EXCEPT ![c].pc = "send", ![c].acquired = @ + 1]
    /\ UNCHANGED <<client, callVars, tickerC, refill, fired, added, mVars>>

\* variant: the attempt counter is a field of the shared Client
CallDo_SharedCounter(c, resp) ==
    /\ callers[c].pc = "send"
    /\ LET a == AfterAttempt(client, callers[c].attempt + 1, resp) IN
       callers' = [d \in Callers |->
                     IF d = c
                     THEN [callers[d] EXCEPT !.attempt = @ + 1,
                                             !.pc = IF a.retry THEN "sleep" ELSE "returned"]
                     ELSE [callers[d] EXCEPT !.attempt = @ + 1]]
    /\ UNCHANGED <<client, bucket, callVars, tickerC, refill, fired, added, burst, mVars>>

\* attempt++, HTTPClient.Do(req) and the branch on its result
CallDo(c, resp) ==
    /\ callers[c].pc = "send"
    /\ LET a == AfterAttempt(client, callers[c].attempt + 1, resp) IN
       callers' = [callers EXCEPT ![c].attempt = @ + 1,
                                  ![c].pc = IF a.retry THEN "sleep" ELSE "returned"]
    /\ UNCHANGED <<client, bucket, callVars, tickerC, refill, fired, added, burst, mVars>>

\* time.Sleep(c.RetryOptions.Delay); continue
CallSleep(c) ==
    /\ callers[c].pc = "sleep"
    /\ callers' = [callers EXCEPT ![c].pc = "loop"]
    /\ UNCHANGED <<client, bucket, callVars, tickerC, refill, fired, added, burst, mVars>>

NextRL ==
    \/ TickerFire
    \/ RefillRecv
    \/ RefillSend
    \/ \E c \in Callers : CallStart(c)
    \/ \E c \in Callers : CallWait(c)
    \/ \E c \in Callers, r \in Answers : CallDo(c, r)
    \/ \E c \in Callers : CallSleep(c)

SpecRL == InitRL /\ [][NextRL]_vars

\* the ticker keeps firing, the goroutine and every caller keep running
FairSpecRL ==
    /\ SpecRL
    /\ WF_vars(TickerFire)
    /\ WF_vars(RefillRecv)
    /\ WF_vars(RefillSend)
    /\ \A c \in Callers : WF_vars(CallWait(c))
    /\ \A c \in Callers : WF_vars(\E r \in Answers : CallDo(c, r))
    /\ \A c \in Callers : WF_vars(CallSleep(c))

\* ------------------------------------------------------------------------
\* A Method value and the calls made on it
\* ------------------------------------------------------------------------
KY == <<":", "y">>
TwoPlaceholders == <<"/", "a", "/">> \o KX \o <<"/">> \o KY

\* parameters of every dynamic type ParseUri distinguishes, empty and not;
\* one string value is the text of the other placeholder
MParams ==
    { MethodParam(KX, StrV(<<>>)),
      MethodParam(KX, StrV(KY)),
      MethodParam(KX, IntV(0)),
      MethodParam(KX, BoolV(TRUE)),
      MethodParam(KY, StrV(<<"1">>)),
      MethodParam(KY, StrsV(<<>>)),
      MethodParam(KY, StrsV(<< <<"1">>, <<"2">> >>)),
      MethodParam(KY, IntsV(<<>>)),
      MethodParam(KY, IntsV(<<1, 2>>)) }


\* descriptors as the package declares them: a template, its kind, its
\* required keys and, for some, default parameters
Templates ==
    { Method("T", TwoPlaceholders, kind, required,
             IF required = <<KX, KY>> THEN <<MethodParam(KX, StrV(KY))>> ELSE <<>>) :
        kind \in {MethodParamTypeUri, MethodParamTypeQueryString},
        required \in {<<>>, <<KX, KY>>, <<KY, KX>>} }

InitM ==
    /\ client = NewClient(0, FALSE, 0)
    /\ bucket = Prefill(client.RateLimiter.Max)
    /\ IdleCall
    /\ IdleLimiter
    /\ tmpl \in Templates
    /\ desc = tmpl
    /\ applied = NoApplied

\* m.SetParams(p...)
CallSetParams(p) ==
    /\ desc' = SetParams(desc, p)
    /\ applied' = Applied("SetParams", Min(applied.sets + 1, 2), p, <<>>, NoErr, <<>>)
    /\ UNCHANGED <<client, bucket, callVars, rlVars, tmpl>>

\* m.GetParams()
CallGetParams ==
    /\ applied' = Applied("GetParams", applied.sets, applied.arg, GetParams(desc),
                          NoErr, <<>>)
    /\ UNCHANGED <<client, bucket, callVars, rlVars, tmpl, desc>>

\* m.Verify()
CallVerify ==
    /\ applied' = Applied("Verify", applied.sets, applied.arg, <<>>, Verify(desc), <<>>)
    /\ UNCHANGED <<client, bucket, callVars, rlVars, tmpl, desc>>

\* m.ParseUri()
CallParseUri ==
    /\ LET r == ParseUri(desc) IN
       applied' = Applied("ParseUri", applied.sets, applied.arg, <<>>, r.err, r.uri)
    /\ UNCHANGED <<client, bucket, callVars, rlVars, tmpl, desc>>

NextM ==
    \/ \E p \in UNION {[1..n -> MParams] : n \in 0..MaxParams} : CallSetParams(p)
    \/ CallGetParams
    \/ CallVerify
    \/ CallParseUri

SpecM == InitM /\ [][NextM]_vars

\* ------------------------------------------------------------------------
\* Rendering and dispatch of one descriptor
\* ------------------------------------------------------------------------
\* values of every dynamic type, empty and not, and the nil interface
RValues ==
    { StrV(<<>>), StrV(<<"1">>), StrV(<<"..">>), StrV(<<" ">>), IntV(0),
      StrsV(<<>>), StrsV(<< <<"1">>, <<"2">> >>),
      IntsV(<<>>), IntsV(<<1, 2>>), BoolV(TRUE),
      [BoolV(FALSE) EXCEPT !.k = "nil"] }

\* parameter lists over a path key, a second path key and a query key
RenderLists ==
    LET params == {MethodParam(k, v) : k \in {KX, KY, <<"q">>}, v \in RValues}
    IN UNION {[1..n -> params] : n \in 0..MaxParams}

\* one descriptor of each dispatchable or renderable kind
RenderTemplates ==
    { Method("R", TwoPlaceholders, MethodParamTypeUri, <<KX, KY>>, <<>>),
      Method("R", TwoPlaceholders, MethodParamTypeQueryString, <<KX, KY>>, <<>>),
      Method("R", TwoPlaceholders, MethodParamTypeUriAndQueryString, <<KX, KY>>, <<>>),
      Method("R", TwoPlaceholders, MethodParamTypeUriAndQueryString, <<KY, <<"q">>>>, <<>>) }

InitP ==
    /\ client = NewClient(0, FALSE, 0)
    /\ bucket = Prefill(client.RateLimiter.Max)
    /\ IdleCall
    /\ IdleLimiter
    /\ tmpl \in RenderTemplates
    /\ desc \in {SetParams(tmpl, p) : p \in RenderLists}
    /\ applied = NoApplied

\* client.CallMethod(m) up to the request it hands to the retry loop
CallCallMethod ==
    /\ LET d == CallMethod(desc) IN
         /\ req' = d.req
         /\ applied' = Applied("CallMethod", applied.sets, applied.arg, <<>>, d.err, <<>>)
    /\ UNCHANGED <<client, bucket, pc, in, method, attempt, sleeps, sent, acquired, last,
                   call, out, bodies, pkg, rlVars, tmpl, desc>>

NextP ==
    \/ CallParseUri
    \/ CallCallMethod

SpecP == InitP /\ [][NextP]_vars

\* ------------------------------------------------------------------------
\* Properties
\* ------------------------------------------------------------------------
LastFailed == sent > 0 /\ (last.transportErr \/ last.status # 200)
LastOK == sent > 0 /\ ~last.transportErr /\ last.status = 200
LoopOver == pc \in {"returned", "done"} /\ sent > 0

\* C1: with MaxRetries = n the retry loop makes at most n+1 attempts, and
\* exactly n+1 when no attempt yields 200; it then returns a nil body and a
\* non-nil error, with the status of the last response when that was a
\* non-200 response and status 0 when it was a transport error.
C1_RetryExhaustion ==
    /\ attempt <= client.MaxRetries + 1
    /\ sent = attempt
    /\ (LoopOver /\ LastFailed) =>
          /\ attempt = client.MaxRetries + 1
          /\ ~call.hasBody
          /\ IsErr(call.err)
          /\ last.transportErr => (call.status = 0 /\ call.err.kind = "Transport")
          /\ ~last.transportErr =>
                (call.status = last.status /\ call.err.kind = "UnexpectedStatus"
                    /\ call.err.status = last.status)

C1_Witness ==
    /\ pc = "returned"
    /\ client.MaxRetries = 2
    /\ attempt = 3
    /\ ~last.transportErr /\ last.status = 500
    /\ call.status = 500 /\ IsErr(call.err) /\ ~call.hasBody

\* C2: when the first k attempts fail and attempt k+1 answers 200, the loop
\* returns the body, status 200 and a nil error after exactly k+1 attempts
\* and k sleeps; the loop only continues after a failed attempt.
C2_SuccessAfterRetries ==
    /\ (LoopOver /\ LastOK) =>
          /\ call.hasBody
          /\ call.body = last.body
          /\ call.status = 200
          /\ ~IsErr(call.err)
          /\ sleeps = attempt - 1
          /\ attempt <= client.MaxRetries + 1
    /\ (pc \in {"loop", "send"}) => sleeps = attempt
    /\ (pc \in {"loop", "send", "sleep"} /\ attempt > 0) => LastFailed

C2_Witness ==
    /\ pc = "returned"
    /\ client.MaxRetries = 2
    /\ attempt = 3 /\ sleeps = 2
    /\ call.hasBody /\ call.status = 200 /\ ~IsErr(call.err)

\* C3 (as claimed): an operation with the structured error schema that got
\* a non-200 answer whose body decodes to {errorId, customCode, message}
\* with a non-empty message returns an error exposing that customCode and
\* message.
C3_StructuredErrorSurfaced ==
    (pc = "done" /\ in.op \in StructuredErrorOps /\ LastFailed /\ ~last.transportErr
        /\ last.body.shape = "object" /\ last.body.errorIdOK /\ last.body.msg # <<>>)
    => (out.err.kind = "ServerError" /\ out.err.code = last.body.code
           /\ out.err.msg = last.body.msg)

\* C4 (as claimed): GetContractByChainIdAndAddress issues the HTTP request
\* for its path-and-query descriptor and, on a 200 answer carrying a
\* contract document, returns the decoded document and a nil error.
C4_ContractLookupDispatched ==
    (pc = "done" /\ in.op = "GetContractByChainIdAndAddress") =>
        /\ sent >= 1
        /\ (LastOK /\ last.body.shape = "object") => (~out.res.isNil /\ ~IsErr(out.err))

UnmetRequired(m) ==
    \E i \in 1..Len(m.RequiredParams) :
        \A j \in 1..Len(m.Params) : m.Params[j].Key # m.RequiredParams[i]

\* C5 (as claimed): no HTTP request is ever sent for a descriptor one of
\* whose required keys has no entry in Params.
C5_NoRequestForUnmetRequired ==
    (pc # "idle" /\ UnmetRequired(method)) =>
        /\ sent = 0
        /\ pc = "done" => IsErr(out.err)

\* C6 (as claimed): whenever ParseUri fails for the descriptor, CallMethod
\* returns an error and no HTTP request is sent.
C6_NoRequestOnRenderFailure ==
    (pc # "idle" /\ IsErr(ParseUri(method).err)) =>
        /\ sent = 0
        /\ pc = "done" => IsErr(out.err)

KnownKinds ==
    {MethodParamTypeUri, MethodParamTypeQueryString, MethodParamTypeUriAndQueryString}

\* C7: for a descriptor whose ParamType is none of the three kinds,
\* CallMethod returns (nil, 0, invalid MethodParamType) at once, sends no
\* request and takes no rate-limit token, and ParseUri returns an empty
\* string with an error.
C7_InvalidKindRejected ==
    (pc # "idle" /\ method.ParamType \notin KnownKinds) =>
        /\ pc = "done"
        /\ sent = 0 /\ req = NoRequest /\ acquired = 0 /\ attempt = 0
        /\ ~call.hasBody /\ call.status = 0
        /\ call.err.kind = "InvalidMethodParamType"
        /\ out.res.isNil /\ out.err.kind = "InvalidMethodParamType"
        /\ ParseUri(method).uri = <<>>
        /\ ParseUri(method).err.kind = "InvalidMethodParamType"

C7_Witness ==
    /\ pc = "done"
    /\ method.ParamType = 3
    /\ client.RateLimiter.attached
    /\ call.err.kind = "InvalidMethodParamType"

ValidItem(item, op) ==
    IF op = "GetContractFiles" THEN item.k = "string"
    ELSE item.k \in {"object", "objectMore"}

AllValid(items, op) == \A i \in 1..Len(items) : ValidItem(items[i], op)

IdsOf(items) == [i \in 1..Len(items) |-> items[i].id]

TolerantAnswered == pc = "done" /\ in.op \in TolerantOps /\ LastOK

\* C8: GetContractFiles and GetContractSourceCode, on a 200 answer: a bare
\* array of n valid items gives Status "unknown" and those n items in
\* order; an envelope {status, files} of valid items gives the server's
\* status and the same items, without the fallback.
C8_TolerantDecode ==
    TolerantAnswered =>
        /\ (last.body.shape = "array" /\ AllValid(last.body.items, in.op)) =>
              /\ ~IsErr(out.err) /\ ~out.res.isNil
              /\ out.res.status = <<"unknown">>
              /\ out.res.items = IdsOf(last.body.items)
              /\ out.res.path = "fallback"
        /\ (last.body.shape = "object" /\ last.body.statusK = "string"
               /\ last.body.filesK = "array" /\ AllValid(last.body.items, in.op)) =>
              /\ ~IsErr(out.err) /\ ~out.res.isNil
              /\ out.res.status = last.body.statusS
              /\ out.res.items = IdsOf(last.body.items)
              /\ out.res.path = "envelope"

C8_Witness ==
    /\ TolerantAnswered
    /\ in.op = "GetContractFiles"
    /\ last.body = ArrayDoc(<<FileB, FileA>>)
    /\ out.res.status = <<"unknown">>
    /\ out.res.items = <<"b", "a">>

FieldMistyped(doc, op) ==
    \/ doc.statusK \notin {"absent", "string"}
    \/ doc.filesK \notin {"absent", "null", "array"}
    \/ doc.filesK = "array" /\ ~AllValid(doc.items, op)

\* C9: in GetContractFiles and GetContractSourceCode a decode failure of a
\* body that is not a top-level array is returned as it is, with a nil
\* result and without the fallback; a failing second decode also gives a
\* nil result and the error, never a result with Status "unknown".
C9_DecodeFailurePropagates ==
    TolerantAnswered =>
        /\ IsErr(out.err) => (out.res.isNil /\ out.res.path = "none")
        /\ last.body.shape \in {"invalid", "empty"} =>
              (out.err.kind = "Decode" /\ out.err.code[1] = "syntax")
        /\ last.body.shape \in {"string", "number"} =>
              (out.err.kind = "Decode" /\ out.err.code = <<"type", last.body.shape, "">>)
        /\ (last.body.shape = "object" /\ FieldMistyped(last.body, in.op)) =>
              (out.err.kind = "Decode" /\ out.err.code[1] = "type"
                  /\ out.err.code[3] # "")
        /\ (last.body.shape = "array" /\ ~AllValid(last.body.items, in.op)) =>
              (out.err.kind = "Decode" /\ out.res.isNil)
        /\ out.res.status = <<"unknown">> =>
              (~IsErr(out.err) /\ last.body.shape = "array"
                  /\ AllValid(last.body.items, in.op))

C9_Witness ==
    /\ TolerantAnswered
    /\ last.body = ArrayDoc(<<Item("array", "x")>>)
    /\ out.res.isNil
    /\ out.err.kind = "Decode"
    /\ out.err.code = <<"type", "array", "">>

\* C10 (as claimed): every public operation returns either a non-nil
\* result with a nil error or a nil result with a non-nil error.
C10_ResultXorError ==
    (pc = "done" /\ in.op \in PublicOps) => (out.res.isNil <=> IsErr(out.err))

\* ------------------------------------------------------------------------
\* Properties of the rate limiter (SpecRL, FairSpecRL)
\* ------------------------------------------------------------------------
Max == client.RateLimiter.Max

\* C11: the bucket holds between 0 and Max tokens in every state and Max
\* right after construction; tokens arrive one at a time, only from a tick
\* the goroutine holds and only when there is room; a tick that finds the
\* bucket full stays with the blocked goroutine and adds nothing; a Wait()
\* that returns removes exactly one token.
C11_TokenInvariant ==
    /\ bucket = Max
    /\ [](bucket \in 0..Max)
    /\ [][/\ bucket' > bucket =>
               /\ bucket' = bucket + 1
               /\ added' = added + 1
               /\ refill = "send" /\ refill' = "recv"
               /\ Waited' = Waited
          /\ (refill = "send" /\ bucket = Max) =>
               (refill' = "send" /\ added' = added)
          /\ Waited' # Waited =>
               (Waited' = Waited + 1 /\ bucket' = bucket - 1)
          /\ bucket' < bucket => Waited' = Waited + 1]_vars

\* a tick found the bucket full after tokens were taken and added
C11_Witness ==
    /\ refill = "send"
    /\ bucket = Max
    /\ added > 0
    /\ Waited > 0

C13_MaxPerDuration == burst <= Max

\* C14: every attempt of every caller took one token before its request was
\* sent, and the requests sent by all callers together never exceed Max plus
\* the tokens added by ticks.
C14_TokenPerAttempt ==
    /\ \A c \in Callers :
          callers[c].acquired =
              callers[c].attempt + (IF callers[c].pc = "send" THEN 1 ELSE 0)
    /\ Requests <= Max + added

\* both callers sent requests and every token was used
C14_Witness ==
    /\ \A c \in Callers : callers[c].attempt > 0
    /\ added > 0
    /\ Requests = Max + added

\* C15: a caller at Wait() can proceed exactly when the bucket holds a
\* token, and under a fair ticker, goroutine and callers every Wait() call
\* returns and every call of doRequestWithRetry returns.
C15_WaitLiveness ==
    /\ [](\A c \in Callers :
            callers[c].pc = "loop" => (ENABLED CallWait(c) <=> bucket > 0))
    /\ \A c \in Callers :
          /\ (callers[c].pc = "loop") ~> (callers[c].pc = "send")
          /\ (callers[c].pc = "loop") ~> (callers[c].pc = "returned")

\* a caller returned after waiting for more tokens than the bucket holds
C15_Witness ==
    \E c \in Callers :
        callers[c].pc = "returned" /\ callers[c].acquired > Max

\* ------------------------------------------------------------------------
\* Properties of Method (SpecM)
\* ------------------------------------------------------------------------
\* the rearrangements of a list
Rearrangements(s) ==
    { [i \in 1..Len(s) |-> s[f[i]]] :
        f \in {g \in [1..Len(s) -> 1..Len(s)] :
                  \A i, j \in 1..Len(s) : g[i] = g[j] => i = j} }

DistinctKeys(params) ==
    \A i, j \in 1..Len(params) : params[i].Key = params[j].Key => i = j

\* positions of RequiredParams whose key no entry of Params carries
MissingAt(m) ==
    {i \in 1..Len(m.RequiredParams) :
        \A j \in 1..Len(m.Params) : m.Params[j].Key # m.RequiredParams[i]}

FirstMissing(m) ==
    m.RequiredParams[CHOOSE i \in MissingAt(m) : \A k \in MissingAt(m) : i <= k]

\* C16: Verify() returns an error exactly when some key of RequiredParams
\* is the Key of no entry of Params, whatever the values of the entries.
C16_VerifyIffMissing ==
    applied.op = "Verify" => (IsErr(applied.err) <=> MissingAt(desc) # {})

\* every required key is present with an empty string or an empty list, and
\* Verify() returned nil
C16_Witness ==
    /\ applied.op = "Verify"
    /\ ~IsErr(applied.err)
    /\ Len(desc.RequiredParams) = 2
    /\ Len(desc.Params) = 2
    /\ IsEmptyString(desc.Params[1].Value)
    /\ desc.Params[2].Value = StrsV(<<>>)

\* C17: a failing Verify() names the first key of RequiredParams, in
\* declaration order, that no entry of Params carries, and names the same key
\* for every rearrangement of Params.
C17_FirstMissingNamed ==
    (applied.op = "Verify" /\ IsErr(applied.err)) =>
        /\ applied.err.kind = "MissingParameter"
        /\ applied.err.msg = FirstMissing(desc)
        /\ \A q \in Rearrangements(desc.Params) :
              Verify(SetParams(desc, q)) = applied.err

\* two required keys are missing and the first declared one is named
C17_Witness ==
    /\ applied.op = "Verify"
    /\ desc.RequiredParams = <<KY, KX>>
    /\ MissingAt(desc) = {1, 2}
    /\ applied.err.msg = KY

\* C18: once SetParams was called, GetParams() is the argument of the last
\* call, whatever the list held before, and every other field of the Method
\* is as the template declared it.
C18_SetParamsReplaces ==
    /\ applied.sets > 0 =>
          /\ GetParams(desc) = applied.arg
          /\ applied.op = "GetParams" => applied.got = applied.arg
    /\ desc.Name = tmpl.Name
    /\ desc.URI = tmpl.URI
    /\ desc.ParamType = tmpl.ParamType
    /\ desc.RequiredParams = tmpl.RequiredParams

\* a template with default parameters had SetParams called twice, last with
\* a different non-empty list, and GetParams() was read
C18_Witness ==
    /\ applied.op = "GetParams"
    /\ applied.sets = 2
    /\ tmpl.Params # <<>>
    /\ applied.arg # <<>>
    /\ applied.arg[1] # tmpl.Params[1]
    /\ applied.got = applied.arg

\* C19: for a Method of kind MethodParamTypeUri whose parameters have
\* pairwise distinct keys and string or int values, every rearrangement of
\* the parameter list renders the same path.
C19_OrderIndependent ==
    (/\ applied.op = "ParseUri"
     /\ desc.ParamType = MethodParamTypeUri
     /\ DistinctKeys(desc.Params)
     /\ ~IsErr(applied.err)) =>
        \A q \in Rearrangements(desc.Params) :
            ParseUri(SetParams(desc, q)).uri = applied.uri

\* whether a parameter contributes a fragment, and the text of its value
Emits(p) ==
    /\ ~(p.Value.k = "string" /\ p.Value.s = <<>>)
    /\ ~(p.Value.k = "[]string" /\ p.Value.ls = <<>>)
    /\ ~(p.Value.k = "[]int" /\ p.Value.li = <<>>)

TextOf(v) ==
    CASE v.k = "string" -> v.s
      [] v.k = "int" -> IntToStr(v.n)
      [] v.k = "[]string" -> Join(v.ls, <<",">>)
      [] v.k = "[]int" -> Join(MapIntToStr(v.li), <<",">>)

ExpectedQuery(params) ==
    LET kept == SelectSeq(params, Emits)
        frags == [i \in 1..Len(kept) |-> kept[i].Key \o <<"=">> \o TextOf(kept[i].Value)]
    IN IF Len(kept) = 0 THEN <<>> ELSE <<"?">> \o Join(frags, <<"&">>)

AllQuerySupported(params) ==
    \A i \in 1..Len(params) : params[i].Value.k \in {"string", "int", "[]string", "[]int"}

\* C20: for a Method of kind MethodParamTypeQueryString whose values are
\* strings, ints, []string or []int, ParseUri() returns no error and the
\* fragments key=text of the parameters in declaration order, skipping empty
\* strings and empty lists and keeping int 0, joined with '&' after a '?', or
\* the empty string when no parameter contributes a fragment.
C20_QueryFragments ==
    (/\ applied.op = "ParseUri"
     /\ desc.ParamType = MethodParamTypeQueryString
     /\ AllQuerySupported(desc.Params)) =>
        /\ ~IsErr(applied.err)
        /\ applied.uri = ExpectedQuery(desc.Params)

\* an empty string was skipped and an int 0 rendered
C20_Witness ==
    /\ applied.op = "ParseUri"
    /\ desc.ParamType = MethodParamTypeQueryString
    /\ Len(desc.Params) = 2
    /\ IsEmptyString(desc.Params[1].Value)
    /\ desc.Params[2] = MethodParam(KX, IntV(0))
    /\ applied.uri = <<"?">> \o KX \o <<"=", "0">>

\* ------------------------------------------------------------------------
\* Properties of rendering and dispatch (SpecP)
\* ------------------------------------------------------------------------
QueryUnescape(s) ==
    [i \in 1..Len(s) |->
        CASE s[i] = "%2C" -> ","
          [] s[i] = "%3A" -> ":"
          [] s[i] = "+" -> " "
          [] OTHER -> s[i]]

\* the query of the request as the text after the path
SentQuery(r) == IF r.query = <<>> THEN <<>> ELSE <<"?">> \o QueryUnescape(r.query)

Dispatched_OK == applied.op = "CallMethod" /\ ~IsErr(applied.err)

\* C21 (as claimed): the query CallMethod sends for a QueryString descriptor
\* is the fragments ParseUri produces for it: the same pairs in the same
\* order, without the empty-valued parameters.
C21_QueryAsRendered ==
    (/\ Dispatched_OK
     /\ desc.ParamType = MethodParamTypeQueryString
     /\ AllQuerySupported(desc.Params)) =>
        SentQuery(req) = ParseUri(desc).uri

HasColon(key) == Len(key) > 0 /\ key[1] = ":"

\* the entry that supplies a required path key: the first one whose key is
\* the placeholder with or without its colon (0 = none)
SupplierOf(m, key) ==
    LET hits == {j \in 1..Len(m.Params) :
                    m.Params[j].Key = key \/ m.Params[j].Key = Tail(key)}
    IN IF hits = {} THEN 0 ELSE CHOOSE j \in hits : \A h \in hits : j <= h

\* required path keys with no entry or an empty value
UnsuppliedPathKeys(m) ==
    {i \in 1..Len(m.RequiredParams) :
        /\ HasColon(m.RequiredParams[i])
        /\ LET j == SupplierOf(m, m.RequiredParams[i])
           IN j = 0 \/ ~Emits(m.Params[j])}

QueryPart(p) == ~HasColon(p.Key) /\ Emits(p)

\* the '?'-prefixed fragments of the parameters that are query parts
ExpectedQueryPart(params) ==
    LET kept == SelectSeq(params, QueryPart)
        frags == [i \in 1..Len(kept) |-> kept[i].Key \o <<"=">> \o FormatV(kept[i].Value)]
    IN IF Len(kept) = 0 THEN <<>> ELSE <<"?">> \o Join(frags, <<"&">>)

\* C22 (as claimed): under MethodParamTypeUriAndQueryString ParseUri fails
\* exactly when a ':'-prefixed required key has no entry or an empty value,
\* and otherwise the result ends with the fragments of exactly the parameters
\* whose key has no ':' prefix and whose value is not empty.
C22_PathAndQuery ==
    (/\ applied.op = "ParseUri"
     /\ desc.ParamType = MethodParamTypeUriAndQueryString
     /\ AllQuerySupported(desc.Params)) =>
        /\ IsErr(applied.err) <=> UnsuppliedPathKeys(desc) # {}
        /\ IsErr(applied.err) =>
              /\ applied.err.kind = "MissingPathParameter"
              /\ applied.uri = <<>>
        /\ ~IsErr(applied.err) =>
              HasSuffix(applied.uri, ExpectedQueryPart(desc.Params))
              /\ (ExpectedQueryPart(desc.Params) = <<>> =>
                     \A i \in 1..Len(applied.uri) : applied.uri[i] # "?")

AcceptedKinds(m) ==
    IF m.ParamType = MethodParamTypeUri THEN {"string", "int"}
    ELSE {"string", "int", "[]string", "[]int"}

Offending(m) == {i \in 1..Len(m.Params) : m.Params[i].Value.k \notin AcceptedKinds(m)}

\* C23 (as claimed): under the QueryString and Uri kinds ParseUri answers a
\* value outside the accepted kinds, nil included, with an
\* ErrInvalidParamType error naming the type and an empty result, and never
\* panics.
C23_InvalidTypeRejected ==
    (/\ applied.op = "ParseUri"
     /\ desc.ParamType \in {MethodParamTypeUri, MethodParamTypeQueryString}
     /\ Offending(desc) # {}) =>
        /\ applied.err # Panic
        /\ applied.err.kind = "InvalidParamType"
        /\ applied.uri = <<>>

\* the path CallMethod joins onto the base path
RenderedPath(m) ==
    IF m.ParamType = MethodParamTypeUri THEN ParseUri(m).uri ELSE m.URI

\* no empty segment between two slashes, no "." or ".." segment and no
\* character a URL path carries escaped
PlainPath(r) ==
    LET segs == SplitPath(r, <<>>, <<>>) IN
    /\ Len(r) > 0 /\ r[1] = "/"
    /\ PathEscape(r) = r
    /\ \A i \in 2..Len(segs) :
          /\ segs[i] \notin {<<".">>, <<"..">>}
          /\ i < Len(segs) => segs[i] # <<>>

C24_StreamOwnership ==
    /\ (pc = "returned" /\ ~IsErr(call.err)) =>
          /\ call.hasBody
          /\ LastOK
          /\ Len(bodies) = sent
          /\ bodies[Len(bodies)] = "open"
    /\ (pc = "done" /\ in.op = "CallMethod" /\ ~IsErr(call.err) /\ sent > 0) =>
          bodies[Len(bodies)] = "open"
    /\ (pc \in {"returned", "done"} /\ IsErr(call.err)) => ~call.hasBody

\* CallMethod returned the open body of a 200 answer that followed a retry
C24_Witness ==
    /\ pc = "returned"
    /\ ~IsErr(call.err)
    /\ attempt >= 2
    /\ call.hasBody
    /\ bodies[Len(bodies)] = "open"

MatchOps == {"CheckContractByAddresses", "GetContractFiles", "GetContractSourceCode"}
MetadataOps == {"GetContractMetadata", "GetContractMetadataAsBytes"}

FullMatchOf(op) ==
    CASE op = "CheckContractByAddresses" -> MethodCheckByAddresses
      [] op = "GetContractFiles" -> MethodGetFileTreeFullMatch
      [] op = "GetContractSourceCode" -> MethodSourceFilesFullMatch

FullOrPartialOf(op) ==
    CASE op = "CheckContractByAddresses" -> MethodCheckAllByAddresses
      [] op = "GetContractFiles" -> MethodGetFileTreeFullOrPartialMatch
      [] op = "GetContractSourceCode" -> MethodSourceFilesFullOrPartialMatch

SameEndpoint(m, d) == m.Name = d.Name /\ m.URI = d.URI /\ m.ParamType = d.ParamType

NothingSent == sent = 0 /\ req = NoRequest /\ bodies = <<>>

\* C26: CheckContractByAddresses, GetContractFiles and GetContractSourceCode
\* use the full-match descriptor for Full and the full-or-partial one for
\* Partial and Any; a match type outside the three ends the operation with
\* (nil, invalid match type) and no request; the metadata operations end
\* with (nil, not implemented) and no request for Any.
C26_MatchTypeSelection ==
    (pc # "idle" /\ in.op \in MatchOps \cup MetadataOps) =>
        /\ in.matchType \notin {"full", "partial", "any"} =>
              /\ pc = "done"
              /\ out = Outcome(NilValue, InvalidMatchType)
              /\ NothingSent
        /\ (in.op \in MetadataOps /\ in.matchType = "any") =>
              /\ pc = "done"
              /\ out = Outcome(NilValue, NotImplemented)
              /\ NothingSent
        /\ (in.op \in MatchOps /\ in.matchType = "full") =>
              SameEndpoint(method, FullMatchOf(in.op))
        /\ (in.op \in MatchOps /\ in.matchType \in {"partial", "any"}) =>
              SameEndpoint(method, FullOrPartialOf(in.op))

\* GetContractFiles with Partial has sent its request for the
\* full-or-partial file tree
C26_Witness ==
    /\ pc = "returned"
    /\ in.op = "GetContractFiles"
    /\ in.matchType = "partial"
    /\ method.Name = MethodGetFileTreeFullOrPartialMatch.Name
    /\ sent > 0

\* C29 (as claimed): when the retry loop returns, every body it obtained
\* other than the one it returns on success has been closed.
C29_NoStreamLeaked ==
    pc = "returned" =>
        \A i \in 1..Len(bodies) :
            (i < Len(bodies) \/ IsErr(call.err)) => bodies[i] # "open"

GetHealthDone == pc = "done" /\ in.op = "GetHealth"

\* C30 (as claimed): GetHealth returns (true, nil) after a 200 answer,
\* (false, nil) when the last answer is a non-200 status, and an error only
\* when the last attempt got no answer.
C30_HealthOutcome ==
    GetHealthDone =>
        /\ LastOK => out = Outcome(Healthy(TRUE), NoErr)
        /\ (sent > 0 /\ ~last.transportErr /\ last.status # 200) =>
              out = Outcome(Healthy(FALSE), NoErr)
        /\ IsErr(out.err) => (sent > 0 /\ last.transportErr)

\* ------------------------------------------------------------------------
\* Properties of the Client shared by concurrent calls (SpecRL)
\* ------------------------------------------------------------------------
\* C28: no step of any call changes the Client's configuration; a step
\* changes the attempt counter of one call only, and every call's counter
\* stays within MaxRetries + 1.
C28_ClientReadOnly ==
    [][/\ client' = client
       /\ \A c \in Callers :
             /\ callers'[c].attempt <= client.MaxRetries + 1
             /\ callers'[c].attempt # callers[c].attempt =>
                   \A d \in Callers \ {c} : callers'[d].attempt = callers[d].attempt]_vars

\* both calls are in flight on one Client, one of them out of attempts
C28_Witness ==
    /\ client.MaxRetries >= 1
    /\ callers["a"].attempt = client.MaxRetries + 1
    /\ callers["a"].pc = "returned"
    /\ callers["b"].pc = "send"
    /\ callers["b"].attempt = 1

====
